---- MODULE Spec2Model ----
(***************************************************************************)
(* Model of the subtitle segment collection of ViDove                      *)
(* (src/src/srt_util/srt.py) and of the task pipeline that drives it       *)
(* (src/src/task.py): SrtSegment and its two constructors,                 *)
(* SrtScript.form_whole_sentence, merge_segs, set_translation,             *)
(* check_len_and_split, reform_src_str, parse_from_srt_file,               *)
(* correct_with_force_term, spell_check_term and split_script.             *)
(*                                                                         *)
(* Strings are sequences of one-character strings.  The five characters    *)
(* of the literal "Note:" are carried as the single symbol NoteTok, so     *)
(* that "contains Note:" and "begins with Note:" stay distinguishable.     *)
(* Times are whole milliseconds.                                           *)
(***************************************************************************)
EXTENDS Integers, Sequences, FiniteSets, TLC

VARIABLES
    segments,     \* SrtScript.segments
    pre,          \* the segments as they were before the last operation
    op,           \* the last operation applied to the collection
    pc,           \* position inside set_translation
    id_range,     \* set_translation: id_range
    translate,    \* set_translation: translate
    lines,        \* set_translation: lines
    first_count,  \* the number of lines of the first split of translate
    count,        \* set_translation: count
    solved,       \* set_translation: solved
    video_link,   \* set_translation: video_link ("None" when not given)
    requests,     \* corrective requests sent to the translator in this call
    log_link,     \* rows appended to ./logs/log_link.csv
    log_name,     \* rows appended to ./logs/log_name.csv
    raised,       \* the exception that left the last operation, or "None"
    sums,         \* results of the last three-way merge
    args,         \* the arguments of the last operation
    out,          \* the value the last operation returned
    domain,       \* SrtScript.domain
    dict,         \* SrtScript.dict ("unset" while the attribute does not exist)
    status,       \* Task.__status
    stage,        \* the stage run_pipeline is about to enter
    calls,        \* the methods the task has invoked so far, in order
    seen,         \* the values of Task.status another thread has read, in order
    SRT_Script,   \* Task.SRT_Script: "None", or "SrtScript" for the collection
    task_cfg,     \* the task_cfg the task was constructed with
    files         \* the subtitle files written, in order

vars == <<segments, pre, op, pc, id_range, translate, lines, first_count, count,
          solved, video_link, requests, log_link, log_name, raised, sums,
          args, out, domain, dict, status, stage, calls, seen, SRT_Script,
          task_cfg, files>>

callVars == <<pc, id_range, translate, lines, first_count, count, solved,
              video_link, requests, log_link, log_name>>

ioVars == <<args, out>>

dictVars == <<domain, dict>>

taskVars == <<status, stage, calls, seen, SRT_Script, task_cfg, files>>

----------------------------------------------------------------------------
(* Bounds of the model *)

MaxSegs == 3        \* segments in a collection that is merged
MaxCallSegs == 2    \* segments in a collection that is translated
MaxLen == 3         \* characters in a translator output
MaxRequests == 6    \* corrective requests followed in one call
MaxIdx == 3         \* positions in an index list handed to merge_segs
MaxDepth == 12      \* nesting of split_seg beyond which a run does not end
MaxText == 4        \* characters in a translation that is split
MaxThreshold == 2   \* text_threshold of check_len_and_split
MaxTicks == 5       \* half seconds in the times of a raw record
MaxSentences == 3   \* sentences in a script handed to split_script
MaxSentence == 3    \* characters in one sentence of such a script
MaxChunk == 6       \* chunk_size of split_script
MaxReads == 3       \* reads of Task.status by another thread during a run
MaxDrop == 4        \* lines missing at the end of a subtitle text

----------------------------------------------------------------------------
(* Strings *)

NoteTok == "N"
NL == "\n"
SP == " "

\* Python: sub in s
Contains(s, sub) ==
    \E k \in 0..(Len(s) - Len(sub)) : SubSeq(s, k + 1, k + Len(sub)) = sub

\* Python: s.find(sep), 1-based, 0 when absent
Find(s, sep) ==
    IF Contains(s, sep)
    THEN CHOOSE k \in 1..Len(s) :
            /\ SubSeq(s, k, k + Len(sep) - 1) = sep
            /\ \A j \in 1..(k - 1) : SubSeq(s, j, j + Len(sep) - 1) # sep
    ELSE 0

\* Python: s.split(sep)
RECURSIVE Split(_, _)
Split(s, sep) ==
    LET k == Find(s, sep)
    IN  IF k = 0 THEN <<s>>
        ELSE <<SubSeq(s, 1, k - 1)>> \o Split(SubSeq(s, k + Len(sep), Len(s)), sep)

IsSpace(c) == c \in {SP, NL}

\* Python: s.lstrip()
RECURSIVE LStrip(_)
LStrip(s) == IF s # <<>> /\ IsSpace(Head(s)) THEN LStrip(Tail(s)) ELSE s

\* Python: s.rstrip()
RECURSIVE RStrip(_)
RStrip(s) ==
    IF s # <<>> /\ IsSpace(s[Len(s)]) THEN RStrip(SubSeq(s, 1, Len(s) - 1)) ELSE s

\* Python: s.strip()
Strip(s) == RStrip(LStrip(s))

\* all strings over alphabet of length at most n
StringsUpTo(alphabet, n) == UNION {[1..k -> alphabet] : k \in 0..n}

----------------------------------------------------------------------------
(* punctuation_dict *)

\* the "sentence_end" entry of the languages written in ASCII punctuation
sentence_end(lang) ==
    IF lang \in {"EN", "FR", "DE", "RU", "KR"} THEN {".", "!", "?", ";"} ELSE {}

src_lang == "EN"

----------------------------------------------------------------------------
(* SrtSegment *)

\* str(timedelta(seconds, milliseconds)) cut to H:MM:SS,mmm: <<H, MM, SS, mmm>>
\* (for a record on which the constructor does not raise, see RecordRaises).
\* The hour field is printed as "0" followed by the decimal digits of H.
TimeStr(sec, ms) ==
    LET total == sec * 1000 + ms
    IN  << total \div 3600000, (total \div 60000) % 60, (total \div 1000) % 60,
           IF ms = 0 THEN 0 ELSE total % 1000 >>

\* the whole-millisecond times of this model at which the binary floating
\* point expression int((t * 100) % 100 * 10) comes out one below the
\* millisecond part of t (0.011 * 100 % 100 * 10 is 10.999999999999998)
FloatLoss == {11, 22, 44, 59, 88}

\* int((t * 100) % 100 * 10) for a time of t milliseconds
MsPart(t) == IF t \in FloatLoss THEN (t % 1000) - 1 ELSE t % 1000

\* end_ms as the record branch of SrtSegment.__init__ leaves it
EndMs(rec) ==
    IF MsPart(rec.start) = MsPart(rec.end) /\ rec.start \div 1000 = rec.end \div 1000
    THEN MsPart(rec.end) + 500 ELSE MsPart(rec.end)

\* the exception the record branch of SrtSegment.__init__ ends with: with
\* end_ms = 1000 the timedelta has no microseconds, str() of it has no
\* fraction and str(self.end_time).split('.')[1] is out of range
RecordRaises(rec) == IF EndMs(rec) = 1000 THEN "IndexError" ELSE "None"

\* SrtSegment.__init__, the branch for a raw record {start, end, text}
SegFromRecord(rec) ==
    LET start_ms == MsPart(rec.start)
        end_ms0 == MsPart(rec.end)
        end_ms == IF start_ms = end_ms0 /\ rec.start \div 1000 = rec.end \div 1000
                  THEN end_ms0 + 500 ELSE end_ms0
        start_time_str == TimeStr(rec.start \div 1000, start_ms)
        end_time_str == TimeStr(rec.end \div 1000, end_ms)
    IN  [ start |-> rec.start, end |-> rec.end,
          start_ms |-> start_ms, end_ms |-> end_ms,
          start_time_str |-> start_time_str, end_time_str |-> end_time_str,
          source_text |-> LStrip(rec.text),
          duration |-> <<start_time_str, end_time_str>>,
          translation |-> <<>> ]

\* the lines of a subtitle text: an index line str(n), a duration line
\* "start_time_str --> end_time_str" and a line of text ('' when blank)
IndexLine(n) == [kind |-> "index", val |-> n]
DurationLine(d) == [kind |-> "duration", val |-> d]
TextLine(t) == [kind |-> "text", val |-> t]
Blank == TextLine(<<>>)

\* line == ''
IsBlank(line) == line.kind = "text" /\ line.val = <<>>

\* int(h) * 3600 + int(m) * 60 + int(s) + (int(mmm) / 10) / 100, in
\* milliseconds
ParseTime(time_str) ==
    (time_str[1] * 3600 + time_str[2] * 60 + time_str[3]) * 1000 + time_str[4]

\* the exception the block branch of SrtSegment.__init__ ends with:
\* args[0][2] on a block of fewer than three lines, and
\* self.duration.split(" --> ")[1] on a second line that is no duration
BlockRaises(block) ==
    IF Len(block) < 3 THEN "IndexError"
    ELSE IF block[2].kind # "duration" THEN "IndexError"
    ELSE "None"

\* SrtSegment.__init__, the branch for a block of lines; start_ms and
\* end_ms hold the fraction int(mmm) / 10, written <<mmm, 10>>
SegFromBlock(block) ==
    LET duration == block[2].val
    IN  [ source_text |-> block[3].val,
          duration |-> duration,
          start_time_str |-> duration[1], end_time_str |-> duration[2],
          start_ms |-> <<duration[1][4], 10>>, end_ms |-> <<duration[2][4], 10>>,
          start |-> ParseTime(duration[1]), end |-> ParseTime(duration[2]),
          translation |-> IF Len(block) < 5 THEN <<>> ELSE block[4].val ]

\* SrtSegment.merge_seg: the receiver after merging seg into it
MergeSegStaleDuration(self, seg) ==
    [ self EXCEPT !.source_text = self.source_text \o <<SP>> \o seg.source_text,
                  !.translation = self.translation \o <<SP>> \o seg.translation,
                  !.end_time_str = seg.end_time_str,
                  !.end = seg.end,
                  !.end_ms = seg.end_ms,
                  !.duration = <<self.start_time_str, self.end_time_str>> ]

merge_seg(self, seg) ==
    [ self EXCEPT !.source_text = self.source_text \o <<SP>> \o seg.source_text,
                  !.translation = self.translation \o <<SP>> \o seg.translation,
                  !.end_time_str = seg.end_time_str,
                  !.end = seg.end,
                  !.end_ms = seg.end_ms,
                  !.duration = <<self.start_time_str, seg.end_time_str>> ]

\* SrtSegment.__add__: a deep copy of self merged with other
Add(self, other) == merge_seg(self, other)

----------------------------------------------------------------------------
(* SrtScript: merging *)

\* SrtScript.merge_segs: idx_list is a non-empty list of positions (1-based
\* here); seg_result += seg rebinds seg_result to seg_result.__add__(seg)
RECURSIVE MergeFrom(_, _, _, _)
MergeFrom(seg_result, segs, idx_list, k) ==
    IF k > Len(idx_list) THEN seg_result
    ELSE MergeFrom(Add(seg_result, segs[idx_list[k]]), segs, idx_list, k + 1)

merge_segs(segs, idx_list) == MergeFrom(segs[idx_list[1]], segs, idx_list, 2)

\* the condition of form_whole_sentence under which segment seg ends a run
EndsSentence(seg) ==
    /\ seg.source_text[Len(seg.source_text)] \in sentence_end(src_lang)
    /\ Len(seg.source_text) > 10
    /\ ~Contains(seg.source_text, <<"v", "s", ".">>)

\* the first loop of form_whole_sentence from position i on: the merge_list
\* it builds; the run left in sentence when the loop ends is not appended
RECURSIVE MergeList(_, _, _, _)
MergeList(segs, i, sentence, merge_list) ==
    IF i > Len(segs) THEN merge_list
    ELSE IF EndsSentence(segs[i])
         THEN MergeList(segs, i + 1, <<>>, Append(merge_list, Append(sentence, i)))
         ELSE MergeList(segs, i + 1, Append(sentence, i), merge_list)

\* SrtScript.form_whole_sentence: the new value of self.segments
form_whole_sentence(segs) ==
    LET merge_list == MergeList(segs, 1, <<>>, <<>>)
    IN  [k \in 1..Len(merge_list) |-> merge_segs(segs, merge_list[k])]

----------------------------------------------------------------------------
(* Merging, with the identity of the segment objects *)

\* A heap is a sequence of segment objects, an object's identity is its
\* position; the objects of a collection of n segments are 1..n, in order.

\* copy.deepcopy of a segment: the heap with the new object at its end
deepcopy(heap, id) == Append(heap, heap[id])

\* SrtSegment.merge_seg: object self is changed in place
MergeSegInPlace(heap, self, seg) ==
    [heap EXCEPT ![self] = merge_seg(heap[self], heap[seg])]

\* __add__ merging into the receiver itself instead of into a copy
AddWithoutCopy(heap, self, other) ==
    [heap |-> MergeSegInPlace(heap, self, other), id |-> self]

\* SrtSegment.__add__: the heap after the call and the object returned
AddObject(heap, self, other) ==
    LET h == deepcopy(heap, self)
    IN  [heap |-> MergeSegInPlace(h, Len(h), other), id |-> Len(h)]

\* the loop of merge_segs: seg_result += self.segments[idx_list[idx]]
RECURSIVE MergeLoop(_, _, _, _)
MergeLoop(heap, seg_result, idx_list, k) ==
    IF k > Len(idx_list) THEN [heap |-> heap, id |-> seg_result]
    ELSE LET r == AddObject(heap, seg_result, idx_list[k])
         IN  MergeLoop(r.heap, r.id, idx_list, k + 1)

\* SrtScript.merge_segs on the objects of the collection
MergeSegsObject(heap, idx_list) ==
    LET h == deepcopy(heap, idx_list[1])
    IN  MergeLoop(h, Len(h), idx_list, 2)

----------------------------------------------------------------------------
(* Inputs *)

Rep(c, n) == [i \in 1..n |-> c]

ShortEnd == <<"H", "i", ".">>
TenEnd == Rep("a", 9) \o <<".">>
LongEnd == Rep("a", 10) \o <<".">>
LongOpen == <<SP>> \o Rep("a", 11)
VsMid == <<"a", SP, "v", "s", ".", SP>> \o Rep("a", 5) \o <<"!">>
VsEnd == Rep("a", 8) \o <<SP, "v", "s", ".">>

\* texts of raw transcript records
RawTexts == {ShortEnd, TenEnd, LongEnd, LongOpen, VsMid, VsEnd}

\* translations a segment holds after a translation stage
TransSet == {<<>>, <<"x">>}

\* the k-th raw record: records are contiguous in time
Record(k, text) == [start |-> (k - 1) * 1500, end |-> k * 1500, text |-> text]

\* SrtScript.__init__ on a list of raw records
NewScript(texts) == [k \in 1..Len(texts) |-> SegFromRecord(Record(k, texts[k]))]

NoSums == [idx |-> 0]

----------------------------------------------------------------------------
(* SrtScript.set_translation *)

RetryLimit == 5

Alphabet == {"a", SP, NL, NoteTok}

\* what inner_func can return: the content of a reply, stripped
InnerFuncResults == {Strip(r) : r \in StringsUpTo(Alphabet, MaxLen)}

\* Python: l.remove(x)
RemoveFirst(l, x) ==
    LET k == CHOOSE j \in 1..Len(l) : l[j] = x /\ \A m \in 1..(j - 1) : l[m] # x
    IN  SubSeq(l, 1, k - 1) \o SubSeq(l, k + 1, Len(l))

\* the assignment loop of set_translation from the i-th (0-based) segment of
\* the slice on: the segments, the lines and the exception it ends with.
\* max_num is bound nowhere in set_translation, so max_num -= 1 raises
\* UnboundLocalError; lines[i][0] raises IndexError on an empty line.
RECURSIVE AssignLoop(_, _, _, _, _)
AssignLoop(segs, lns, start_seg_id, end_seg_id, i) ==
    LET pos == start_seg_id + i
    IN  IF pos > end_seg_id \/ pos > Len(segs)
        THEN [segments |-> segs, lines |-> lns, raised |-> "None"]
        ELSE IF i < Len(lns)
        THEN IF Contains(lns[i + 1], <<NoteTok>>)
             THEN [segments |-> segs, lines |-> RemoveFirst(lns, lns[i + 1]),
                   raised |-> "UnboundLocalError"]
             ELSE IF lns[i + 1] = <<>>
             THEN [segments |-> segs, lines |-> lns, raised |-> "IndexError"]
             ELSE LET line == IF Head(lns[i + 1]) \in {SP, NL}
                              THEN Tail(lns[i + 1]) ELSE lns[i + 1]
                  IN  AssignLoop([segs EXCEPT ![pos].translation = line],
                                 [lns EXCEPT ![i + 1] = line],
                                 start_seg_id, end_seg_id, i + 1)
        ELSE AssignLoop(segs, lns, start_seg_id, end_seg_id, i + 1)

Required(range) == range[2] - range[1] + 1

\* the row set_translation appends to the audit log
LogRow(range, cnt, slv, segs, source) ==
    [range |-> range, iterations |-> cnt, solved |-> slv,
     file_length |-> Len(segs), source |-> source]

VideoName == "video_name"

\* lines 304-327: the audit row, written once the retry loop has ended
WriteLog(range, cnt, lns, link) ==
    LET row == LogRow(range, cnt, ~(Len(lns) < Required(range)), segments,
                      IF link # "None" THEN link ELSE VideoName)
    IN  /\ solved' = ~(Len(lns) < Required(range))
        /\ IF link # "None"
           THEN log_link' = Append(log_link, row) /\ UNCHANGED log_name
           ELSE log_name' = Append(log_name, row) /\ UNCHANGED log_link

\* lines 330-342: the assignment loop ends the call
Assign(range, lns) ==
    LET r == AssignLoop(segments, lns, range[1], range[2], 0)
    IN  /\ segments' = r.segments
        /\ lines' = r.lines
        /\ raised' = r.raised
        /\ pc' = "done"

\* the test of the outer while loop, letting one iteration too many through
LoopGoesOnOffByOne(cnt, lns, range) ==
    cnt <= RetryLimit /\ Len(lns) # Required(range)

\* the test of the outer while loop
LoopGoesOn(cnt, lns, range) == cnt < RetryLimit /\ Len(lns) # Required(range)

\* set_translation up to its first corrective request, or to its end when
\* the first split already has enough lines
SetTranslation(t, range, link) ==
    /\ pc = "idle"
    /\ 1 <= range[1] /\ range[1] <= range[2] /\ range[2] <= Len(segments)
    /\ pre' = segments
    /\ op' = "set_translation"
    /\ id_range' = range
    /\ translate' = t
    /\ video_link' = link
    /\ requests' = 0
    /\ UNCHANGED <<sums, ioVars, dictVars, taskVars>>
    /\ LET lns == Split(t, <<NL, NL>>)
       IN  /\ first_count' = Len(lns)
           /\ IF Len(lns) < Required(range)
              THEN /\ count' = 1
                   /\ solved' = TRUE
                   /\ lines' = lns
                   /\ pc' = "request"
                   /\ UNCHANGED <<segments, raised, log_link, log_name>>
              ELSE /\ Assign(range, lns)
                   /\ UNCHANGED <<count, solved, log_link, log_name>>

\* inner_func raises: flag is set and the request is sent again
RequestFail ==
    /\ pc = "request"
    /\ requests < MaxRequests
    /\ requests' = requests + 1
    /\ UNCHANGED <<segments, pre, op, pc, id_range, translate, lines, first_count,
                   count, solved, video_link, log_link, log_name, raised, sums,
                   ioVars, dictVars, taskVars>>

\* inner_func returns reply: the rest of the iteration, and of the call when
\* the loop ends
RequestReply(reply) ==
    /\ pc = "request"
    /\ requests < MaxRequests
    /\ requests' = requests + 1
    /\ translate' = reply
    /\ UNCHANGED <<pre, op, id_range, first_count, video_link, sums, ioVars, dictVars, taskVars>>
    /\ LET lns == Split(reply, <<NL>>)
       IN  IF LoopGoesOn(count, lns, id_range)
           THEN /\ count' = count + 1
                /\ lines' = lns
                /\ UNCHANGED <<segments, pc, solved, log_link, log_name, raised>>
           ELSE /\ WriteLog(id_range, count, lns, video_link)
                /\ Assign(id_range, lns)
                /\ UNCHANGED count

----------------------------------------------------------------------------
(* SrtScript.split_seg and SrtScript.check_len_and_split *)

\* stands for the one-character comma of "ZH" (U+FF0C)
FullComma == "|"

\* punctuation_dict[lang]["comma"]
comma(lang) == IF lang = "ZH" THEN <<FullComma>> ELSE <<",", SP>>

\* [m.start() for m in re.finditer(sub, s)], searched from 0-based position k
RECURSIVE FindAll(_, _, _)
FindAll(s, sub, k) ==
    IF k + Len(sub) > Len(s) THEN <<>>
    ELSE IF SubSeq(s, k + 1, k + Len(sub)) = sub
         THEN <<k>> \o FindAll(s, sub, k + Len(sub))
         ELSE FindAll(s, sub, k + 1)

\* l[len(l) // 2] if len(l) % 2 == 1 else l[len(l) // 2 - 1]
Middle(l) == IF Len(l) % 2 = 1 THEN l[Len(l) \div 2 + 1] ELSE l[Len(l) \div 2]

\* c.encode('utf-8').isalpha(): the ASCII letters
IsAlpha(c) == c \in {"a", "b", "c", "x"}

\* src_split_idx (0-based)
SrcSplitIdx(source_text, src_comma_str) ==
    LET src_commas == FindAll(source_text, src_comma_str, 0)
        src_space == FindAll(source_text, <<SP>>, 0)
    IN  IF Len(src_commas) # 0 THEN Middle(src_commas)
        ELSE IF Len(src_space) > 0 THEN Middle(src_space)
        ELSE 0

\* trans_split_idx (0-based)
TransSplitIdx(translation, tgt_comma_str) ==
    LET trans_commas == FindAll(translation, tgt_comma_str, 0)
        half == Len(translation) \div 2
        stops == {i \in half..(Len(translation) - 1) : ~IsAlpha(translation[i + 1])}
    IN  IF Len(trans_commas) # 0 THEN Middle(trans_commas)
        ELSE IF stops # {} THEN CHOOSE i \in stops : \A j \in stops : i <= j
        ELSE half

\* the boundary put at the middle of the segment, wherever the text is cut
SplitTimeHalfWay(seg, trans_split_idx, len) ==
    seg.start + (seg.end - seg.start) \div 2

\* seg.start + (seg.end - seg.start) * time_split_ratio, in whole milliseconds
SplitTime(seg, trans_split_idx, len) ==
    IF trans_split_idx = 0 THEN seg.start
    ELSE seg.start + ((seg.end - seg.start) * trans_split_idx) \div (len - 1)

\* the segment as lines 351-355 of split_seg leave it
StripComma(seg, tgt_lang) ==
    LET source_text == IF Len(seg.source_text) > 2
                          /\ SubSeq(seg.source_text, 1, 2) = comma(src_lang)
                       THEN SubSeq(seg.source_text, 3, Len(seg.source_text))
                       ELSE seg.source_text
        translation == IF <<seg.translation[1]>> = comma(tgt_lang)
                       THEN Tail(seg.translation) ELSE seg.translation
    IN  [seg EXCEPT !.source_text = source_text, !.translation = translation]

\* whether a segment is split (again)
Exceeds(seg, text_threshold, time_threshold) ==
    Len(seg.translation) > text_threshold /\ (seg.end - seg.start) > time_threshold

\* SrtScript.split_seg: the exception it ends with, the list it returns and
\* the segment object it was given, as the call leaves it.  A nesting deeper
\* than MaxDepth stands for a recursion that does not end.
RECURSIVE split_seg(_, _, _, _, _)
split_seg(seg0, text_threshold, time_threshold, tgt_lang, depth) ==
    IF depth > MaxDepth
    THEN [raised |-> "RecursionError", list |-> <<>>, seg |-> seg0]
    ELSE IF seg0.translation = <<>>
    THEN [raised |-> "IndexError", list |-> <<>>,
          seg |-> [StripComma([seg0 EXCEPT !.translation = <<SP>>], tgt_lang)
                      EXCEPT !.translation = <<>>]]
    ELSE
    LET seg == StripComma(seg0, tgt_lang)
        source_text == seg.source_text
        translation == seg.translation
        src_split_idx == SrcSplitIdx(source_text, comma(src_lang))
        trans_split_idx == TransSplitIdx(translation, comma(tgt_lang))
        end_seg1 == SplitTime(seg, trans_split_idx, Len(translation))
        seg1_dict == [text |-> SubSeq(source_text, 1, src_split_idx),
                      start |-> seg.start, end |-> end_seg1]
        seg2_dict == [text |-> SubSeq(source_text, src_split_idx + 1, Len(source_text)),
                      start |-> end_seg1, end |-> seg.end]
        seg1 == [SegFromRecord(seg1_dict)
                    EXCEPT !.translation = SubSeq(translation, 1, trans_split_idx)]
        seg2 == [SegFromRecord(seg2_dict)
                    EXCEPT !.translation =
                        SubSeq(translation, trans_split_idx + 1, Len(translation))]
        Fails(e) == [raised |-> e, list |-> <<>>, seg |-> seg]
    IN  IF Len(translation) = 1 THEN Fails("ZeroDivisionError")
        ELSE IF RecordRaises(seg1_dict) # "None" THEN Fails(RecordRaises(seg1_dict))
        ELSE IF RecordRaises(seg2_dict) # "None" THEN Fails(RecordRaises(seg2_dict))
        ELSE
        LET r1 == IF Exceeds(seg1, text_threshold, time_threshold)
                  THEN split_seg(seg1, text_threshold, time_threshold, tgt_lang, depth + 1)
                  ELSE [raised |-> "None", list |-> <<seg1>>, seg |-> seg1]
        IN  IF r1.raised # "None" THEN Fails(r1.raised)
            ELSE
            LET r2 == IF Exceeds(seg2, text_threshold, time_threshold)
                      THEN split_seg(seg2, text_threshold, time_threshold, tgt_lang,
                                     depth + 1)
                      ELSE [raised |-> "None", list |-> <<seg2>>, seg |-> seg2]
            IN  IF r2.raised # "None" THEN Fails(r2.raised)
                ELSE [raised |-> "None", list |-> r1.list \o r2.list, seg |-> seg]

\* the lists of a list of lists, one after the other
RECURSIVE Flatten(_)
Flatten(ls) == IF ls = <<>> THEN <<>> ELSE Head(ls) \o Flatten(Tail(ls))

\* the loop of check_len_and_split from position i on: acc holds what each
\* segment so far has added to the local list segments, old the objects of
\* self.segments as the calls have left them; self.segments is rebound only
\* when the loop has ended
RECURSIVE CheckLoop(_, _, _, _, _, _)
CheckLoop(old, i, acc, text_threshold, time_threshold, tgt_lang) ==
    IF i > Len(old) THEN [raised |-> "None", segments |-> Flatten(acc), added |-> acc]
    ELSE IF Exceeds(old[i], text_threshold, time_threshold)
    THEN LET r == split_seg(old[i], text_threshold, time_threshold, tgt_lang, 1)
         IN  IF r.raised # "None"
             THEN [raised |-> r.raised, segments |-> [old EXCEPT ![i] = r.seg],
                   added |-> acc]
             ELSE CheckLoop([old EXCEPT ![i] = r.seg], i + 1, Append(acc, r.list),
                            text_threshold, time_threshold, tgt_lang)
    ELSE CheckLoop(old, i + 1, Append(acc, <<old[i]>>),
                   text_threshold, time_threshold, tgt_lang)

\* SrtScript.check_len_and_split
check_len_and_split(segs, text_threshold, time_threshold, tgt_lang) ==
    CheckLoop(segs, 1, <<>>, text_threshold, time_threshold, tgt_lang)

----------------------------------------------------------------------------
(* Writing and reading subtitle text *)

\* A subtitle text is the sequence of its newline-terminated lines; a line
\* of text that holds newline characters is several physical lines.

\* SrtScript.reform_src_str: f'{i + 1}\n' followed by str(seg), which is
\* f'{duration}\n{source_text}\n\n'
reform_src_str(segs) ==
    Flatten([i \in 1..Len(segs) |->
                <<IndexLine(i), DurationLine(segs[i].duration),
                  TextLine(segs[i].source_text), Blank>>])

\* SrtScript.form_bilingual_str: f'{i + 1}\n' followed by
\* f'{duration}\n{source_text}\n{translation}\n\n'
form_bilingual_str(segs) ==
    Flatten([i \in 1..Len(segs) |->
                <<IndexLine(i), DurationLine(segs[i].duration),
                  TextLine(segs[i].source_text), TextLine(segs[i].translation),
                  Blank>>])

\* str.splitlines()
splitlines(str) ==
    Flatten([k \in 1..Len(str) |->
                IF str[k].kind = "text"
                THEN LET parts == Split(str[k].val, <<NL>>)
                     IN  [j \in 1..Len(parts) |-> TextLine(parts[j])]
                ELSE <<str[k]>>])

\* the text without its last d lines
DropLast(str, d) == SubSeq(str, 1, Len(str) - d)

\* script_lines[i:i + step] for i in range(0, len(script_lines), step)
Blocks(script_lines, step) ==
    [b \in 1..((Len(script_lines) + step - 1) \div step) |->
        SubSeq(script_lines, (b - 1) * step + 1,
               IF b * step < Len(script_lines) THEN b * step ELSE Len(script_lines))]

\* the test of lines 192-193, which reads script_lines[2] and, when that
\* line is not empty, script_lines[3]
BilingualRaises(script_lines) ==
    IF Len(script_lines) < 3 THEN "IndexError"
    ELSE IF ~IsBlank(script_lines[3]) /\ Len(script_lines) < 4 THEN "IndexError"
    ELSE "None"

Bilingual(script_lines) == ~IsBlank(script_lines[3]) /\ ~IsBlank(script_lines[4])

\* SrtScript.parse_from_srt_file(srt_str=...): the exception it ends with
\* and the segments of the collection it returns
parse_from_srt_file(srt_str) ==
    LET script_lines == splitlines(srt_str)
    IN  IF BilingualRaises(script_lines) # "None"
        THEN [raised |-> BilingualRaises(script_lines), segments |-> <<>>]
        ELSE LET step == IF Bilingual(script_lines) THEN 5 ELSE 4
                 blocks == Blocks(script_lines, step)
             IN  IF \E b \in 1..Len(blocks) : BlockRaises(blocks[b]) # "None"
                 THEN [raised |-> "IndexError", segments |-> <<>>]
                 ELSE [raised |-> "None",
                       segments |-> [b \in 1..Len(blocks) |-> SegFromBlock(blocks[b])]]

----------------------------------------------------------------------------
(* Domain dictionary: correct_with_force_term and spell_check_term *)

Unset == "unset"

\* SrtScript.__init__, lines 170-178: self.domain after the construction
NewDomain(domain_arg, files_exist) ==
    IF domain_arg # "General" /\ ~files_exist THEN "General" ELSE domain_arg

\* SrtScript.__init__, lines 170-178: self.dict after the construction; the
\* attribute is only assigned when the dictionary files exist
NewDict(domain_arg, files_exist) ==
    IF domain_arg # "General" /\ files_exist THEN "term_dict" ELSE Unset

\* Python: c.lower()
Lower(c) == IF c = "H" THEN "h" ELSE c

\* Python: s.split()
RECURSIVE Words(_)
Words(s) ==
    LET t == LStrip(s)
        ends == {k \in 1..Len(t) : IsSpace(t[k])}
        k == IF ends = {} THEN Len(t) + 1
             ELSE CHOOSE e \in ends : \A f \in ends : e <= f
    IN  IF t = <<>> THEN <<>>
        ELSE <<SubSeq(t, 1, k - 1)>> \o Words(SubSeq(t, k, Len(t)))

\* SrtScript.extract_words(sentence, 2): the pairs of neighbouring words,
\* then the single words
extract_words(sentence) ==
    LET words == Words(sentence)
    IN  [i \in 1..(Len(words) - 1) |-> <<words[i], words[i + 1]>>]
            \o [i \in 1..Len(words) |-> <<words[i]>>]

\* SrtScript.get_real_word: the words joined by a space, without one
\* closing punctuation mark, in lower case
get_real_word(word_list) ==
    LET word == IF Len(word_list) = 1 THEN word_list[1]
                ELSE word_list[1] \o <<SP>> \o word_list[2]
        cut == IF word[Len(word)] \in {".", NL, ",", "!", "?"}
               THEN SubSeq(word, 1, Len(word) - 1) ELSE word
    IN  [i \in 1..Len(cut) |-> Lower(cut[i])]

\* the real words spell_check_term looks up, in the order of its loops
RealWords(segs) ==
    Flatten([k \in 1..Len(segs) |->
                LET ready_words == extract_words(segs[k].source_text)
                IN  [i \in 1..Len(ready_words) |-> get_real_word(ready_words[i])]])

\* SrtScript.spell_check_term on a collection without dictionary, known being
\* the words enchant's en_US dictionary accepts: the domain test of lines
\* 510-512 only logs, and the first word that enchant rejects makes the
\* condition of line 522 read self.dict, an attribute that does not exist
spell_check_term(segs, known) ==
    IF \E i \in 1..Len(RealWords(segs)) : RealWords(segs)[i] \notin known
    THEN [raised |-> "AttributeError", segments |-> segs]
    ELSE [raised |-> "None", segments |-> segs]

----------------------------------------------------------------------------
(* split_script *)

\* the state of split_script before its loop
NoChunks == [script_arr |-> <<>>, range_arr |-> <<>>, start |-> 1, end |-> 0,
             script |-> <<>>]

\* the loop of split_script from the k-th sentence of script_split on
RECURSIVE ChunkLoop(_, _, _, _)
ChunkLoop(script_split, k, chunk_size, st) ==
    IF k > Len(script_split) THEN st
    ELSE LET sentence == script_split[k]
         IN  ChunkLoop(script_split, k + 1, chunk_size,
                 IF Len(st.script) + Len(sentence) + 1 <= chunk_size
                 THEN [st EXCEPT !.script = @ \o sentence \o <<NL, NL>>,
                                 !.end = @ + 1]
                 ELSE [script_arr |-> Append(st.script_arr, Strip(st.script)),
                       range_arr |-> Append(st.range_arr, <<st.start, st.end>>),
                       start |-> st.end + 1,
                       end |-> st.end + 1,
                       script |-> sentence \o <<NL, NL>>])

\* split_script(script_in, chunk_size)
split_script(script_in, chunk_size) ==
    LET script_split == Split(script_in, <<NL, NL>>)
        st == ChunkLoop(script_split, 1, chunk_size, NoChunks)
        last == Strip(st.script) # <<>>
        script_arr == IF last THEN Append(st.script_arr, Strip(st.script))
                      ELSE st.script_arr
        range_arr == IF last
                     THEN Append(st.range_arr, <<st.start, Len(script_split) - 1>>)
                     ELSE st.range_arr
    IN  [raised |-> IF Len(script_arr) = Len(range_arr) THEN "None"
                    ELSE "AssertionError",
         script_arr |-> script_arr,
         range_arr |-> range_arr]

----------------------------------------------------------------------------
(* Post-processing and the translated subtitle text *)

\* punctuation_dict[lang]["punc_str"], as the set of its characters; of the
\* punctuation of "ZH" only the comma has a stand-in
punc_str(lang) ==
    IF lang = "ZH" THEN {FullComma}
    ELSE {".", SP, ",", "?", "!", ":", ";", "-", "(", ")", "[", "]", "{", "}"}

\* SrtSegment.remove_trans_punc
remove_trans_punc(seg, tgt_lang) ==
    [seg EXCEPT !.translation =
        [k \in 1..Len(@) |-> IF @[k] \in punc_str(tgt_lang) THEN SP ELSE @[k]]]

\* SrtScript.remove_trans_punctuation
remove_trans_punctuation(segs, tgt_lang) ==
    [k \in 1..Len(segs) |-> remove_trans_punc(segs[k], tgt_lang)]

\* SrtScript.reform_trans_str: f'{i + 1}\n' followed by get_trans_str(),
\* which is f'{duration}\n{translation}\n\n'
reform_trans_str(segs) ==
    Flatten([i \in 1..Len(segs) |->
                <<IndexLine(i), DurationLine(segs[i].duration),
                  TextLine(segs[i].translation), Blank>>])

----------------------------------------------------------------------------
(* Operations on the whole collection *)

FormWholeSentence ==
    /\ pc = "idle"
    /\ op = "init"
    /\ pre' = segments
    /\ segments' = form_whole_sentence(segments)
    /\ op' = "form_whole_sentence"
    /\ UNCHANGED <<callVars, raised, sums, ioVars, dictVars, taskVars>>

\* (a + b) + c, a + (b + c) and merge_segs over the same three positions
MergeThree(i) ==
    /\ pc = "idle"
    /\ op = "init"
    /\ i + 2 <= Len(segments)
    /\ sums' = [idx |-> i,
                left |-> Add(Add(segments[i], segments[i + 1]), segments[i + 2]),
                right |-> Add(segments[i], Add(segments[i + 1], segments[i + 2])),
                list |-> merge_segs(segments, <<i, i + 1, i + 2>>)]
    /\ pre' = segments
    /\ op' = "merge"
    /\ UNCHANGED <<segments, callVars, raised, ioVars, dictVars, taskVars>>

----------------------------------------------------------------------------
(* Specifications *)

\* no task drives the collection
NoTask ==
    /\ status = "CREATED"
    /\ stage = "none"
    /\ calls = <<>>
    /\ seen = <<>>
    /\ SRT_Script = "SrtScript"
    /\ task_cfg = <<>>
    /\ files = <<>>

InitCollection ==
    /\ pre = <<>>
    /\ op = "init"
    /\ pc = "idle"
    /\ id_range = <<0, 0>>
    /\ translate = <<>>
    /\ lines = <<>>
    /\ first_count = 0
    /\ count = 0
    /\ solved = TRUE
    /\ video_link = "None"
    /\ requests = 0
    /\ log_link = <<>>
    /\ log_name = <<>>
    /\ raised = "None"
    /\ sums = NoSums
    /\ args = <<>>
    /\ out = <<>>

InitFields == InitCollection /\ NoTask

\* the collection was built with the default domain "General"
InitCall == InitFields /\ domain = "General" /\ dict = Unset

\* a collection built from raw records, about to be translated
Init ==
    /\ \E n \in 1..MaxCallSegs :
          segments = NewScript([k \in 1..n |-> IF k = 1 THEN LongOpen ELSE LongEnd])
    /\ InitCall

Ranges == {r \in (1..MaxCallSegs) \X (1..MaxCallSegs) : r[1] <= r[2]}

\* a caller hands a translation, a range and a video link to set_translation
CallSetTranslation ==
    /\ pc = "idle"
    /\ \E t \in StringsUpTo(Alphabet, MaxLen), range \in Ranges,
          link \in {"None", "url"} : SetTranslation(t, range, link)

\* the translator answers a corrective request
TranslatorReplies ==
    /\ pc = "request"
    /\ \E reply \in InnerFuncResults : RequestReply(reply)

Next ==
    \/ FormWholeSentence
    \/ CallSetTranslation
    \/ RequestFail
    \/ TranslatorReplies

Spec == Init /\ [][Next]_vars

\* a collection built from raw records whose segments hold translations
InitSentence ==
    /\ \E n \in 1..MaxSegs :
          \E texts \in [1..n -> RawTexts], trans \in [1..n -> TransSet] :
             segments = [k \in 1..n |->
                            [NewScript(texts)[k] EXCEPT !.translation = trans[k]]]
    /\ InitCall

NextSentence ==
    \/ FormWholeSentence
    \/ \E i \in 1..MaxSegs : MergeThree(i)

SpecSentence == InitSentence /\ [][NextSentence]_vars

\* a + b on two segments of the collection
AddStored(i, j) ==
    /\ pc = "idle"
    /\ op = "init"
    /\ i <= Len(segments) /\ j <= Len(segments)
    /\ LET r == AddObject(segments, i, j)
       IN  /\ segments' = SubSeq(r.heap, 1, Len(segments))
           /\ out' = [id |-> r.id, seg |-> r.heap[r.id]]
    /\ pre' = segments
    /\ op' = "add"
    /\ args' = <<i, j>>
    /\ UNCHANGED <<callVars, raised, sums, dictVars, taskVars>>

\* merge_segs(idx_list) on the collection
MergeSegs(idx_list) ==
    /\ pc = "idle"
    /\ op = "init"
    /\ \A k \in 1..Len(idx_list) : idx_list[k] <= Len(segments)
    /\ LET r == MergeSegsObject(segments, idx_list)
       IN  /\ segments' = SubSeq(r.heap, 1, Len(segments))
           /\ out' = [id |-> r.id, seg |-> r.heap[r.id]]
    /\ pre' = segments
    /\ op' = "merge_segs"
    /\ args' = idx_list
    /\ UNCHANGED <<callVars, raised, sums, dictVars, taskVars>>

\* a collection built from raw records whose segments hold translations
InitMerge ==
    /\ \E n \in 1..MaxSegs :
          \E texts \in [1..n -> {ShortEnd, LongOpen}], trans \in [1..n -> TransSet] :
             segments = [k \in 1..n |->
                            [NewScript(texts)[k] EXCEPT !.translation = trans[k]]]
    /\ InitCall

IdxLists == UNION {[1..k -> 1..MaxSegs] : k \in 1..MaxIdx}

NextMerge ==
    \/ \E i, j \in 1..MaxSegs : AddStored(i, j)
    \/ \E idx_list \in IdxLists : MergeSegs(idx_list)

SpecMerge == InitMerge /\ [][NextMerge]_vars

TenHours == 36000000

\* start and end times of raw records, in milliseconds
RecordTimes == {10, 11, TenHours} \cup {k * 500 : k \in 0..MaxTicks}

Records == [start : RecordTimes, end : RecordTimes, text : {ShortEnd, LongOpen}]

\* SrtSegment(src_lang, tgt_lang, rec) on a raw record
ConstructFromRecord(rec) ==
    /\ pc = "idle"
    /\ op = "init"
    /\ raised' = RecordRaises(rec)
    /\ out' = IF RecordRaises(rec) = "None" THEN SegFromRecord(rec) ELSE <<>>
    /\ op' = "construct"
    /\ args' = rec
    /\ UNCHANGED <<segments, pre, callVars, sums, dictVars, taskVars>>

\* SrtSegment(src_lang, tgt_lang, block) on the block made of the duration
\* string and the text of the segment just built
ConstructFromBlock ==
    /\ pc = "idle"
    /\ op = "construct"
    /\ raised = "None"
    /\ LET block == <<IndexLine(1), DurationLine(out.duration),
                      TextLine(out.source_text), Blank>>
       IN  /\ raised' = BlockRaises(block)
           /\ out' = IF BlockRaises(block) = "None" THEN SegFromBlock(block) ELSE <<>>
    /\ pre' = <<out>>
    /\ op' = "construct_again"
    /\ UNCHANGED <<segments, callVars, sums, args, dictVars, taskVars>>

InitConstruct == segments = <<>> /\ InitCall

NextConstruct ==
    \/ \E rec \in Records : ConstructFromRecord(rec)
    \/ ConstructFromBlock

SpecConstruct == InitConstruct /\ [][NextConstruct]_vars

\* correct_with_force_term on a collection without dictionary: lines 463-465
CorrectWithForceTerm ==
    /\ pc = "idle"
    /\ op = "init"
    /\ domain = "General"
    /\ pre' = segments
    /\ op' = "correct_with_force_term"
    /\ raised' = "None"
    /\ UNCHANGED <<segments, callVars, sums, ioVars, dictVars, taskVars>>

\* spell_check_term on a collection without dictionary
SpellCheckTerm(known) ==
    /\ pc = "idle"
    /\ op = "init"
    /\ dict = Unset
    /\ LET r == spell_check_term(segments, known)
       IN  segments' = r.segments /\ raised' = r.raised
    /\ pre' = segments
    /\ op' = "spell_check_term"
    /\ args' = known
    /\ UNCHANGED <<callVars, sums, out, dictVars, taskVars>>

\* source texts of a collection that is spell-checked
OneLetter == <<"a">>
TwoWords == <<"a", SP, "b", ".">>
DictTexts == {OneLetter, TwoWords}

\* the words the en_US dictionary of enchant may accept
EnchantWords == {<<"a">>, <<"b">>, <<"a", SP, "b">>}

\* SrtScript(src_lang, tgt_lang, records, ..., domain): the domain is
\* "General" or names a dictionary whose files exist or not
InitDict ==
    /\ \E n \in 1..MaxCallSegs :
          \E texts \in [1..n -> DictTexts], trans \in [1..n -> TransSet] :
             segments = [k \in 1..n |->
                            [NewScript(texts)[k] EXCEPT !.translation = trans[k]]]
    /\ \E domain_arg \in {"General", "SC2"}, files_exist \in BOOLEAN :
          /\ domain = NewDomain(domain_arg, files_exist)
          /\ dict = NewDict(domain_arg, files_exist)
    /\ InitFields

NextDict ==
    \/ CorrectWithForceTerm
    \/ \E known \in SUBSET EnchantWords : SpellCheckTerm(known)

SpecDict == InitDict /\ [][NextDict]_vars

\* the characters of a translation into tgt_lang
LangAlphabet(tgt_lang) == IF tgt_lang = "ZH" THEN {"a", FullComma} ELSE {"a", ",", SP}

\* translations of the segment that is split, and of the segments around it
SplitTrans == StringsUpTo(LangAlphabet("EN"), MaxText) \cup StringsUpTo(LangAlphabet("ZH"), MaxText)
OtherTrans == {<<>>, <<"a", "a">>}

\* source texts of the segment that is split
CommaText == <<"a", ",", SP, "b", SP, "c">>
LeadingCommaText == <<",", SP, "a", SP, "b">>
OneWord == <<"a", "b">>
SplitTexts == {CommaText, LeadingCommaText, OneWord}

TimeThresholds == {0, 1000}

\* check_len_and_split(text_threshold, time_threshold) on a collection whose
\* translations are written in tgt_lang
CheckLenAndSplit(text_threshold, time_threshold, tgt_lang) ==
    /\ pc = "idle"
    /\ op = "init"
    /\ \A k \in 1..Len(segments) : segments[k].translation \in Seq(LangAlphabet(tgt_lang))
    /\ LET r == check_len_and_split(segments, text_threshold, time_threshold, tgt_lang)
       IN  segments' = r.segments /\ raised' = r.raised /\ out' = r.added
    /\ pre' = segments
    /\ op' = "check_len_and_split"
    /\ args' = [text_threshold |-> text_threshold, time_threshold |-> time_threshold,
                tgt_lang |-> tgt_lang]
    /\ UNCHANGED <<callVars, sums, dictVars, taskVars>>

\* a translated collection: segments with short translations followed by
\* one segment with any source text and translation
InitSplit ==
    /\ \E n \in 1..MaxCallSegs :
          \E text \in SplitTexts, t \in SplitTrans, others \in [1..(n - 1) -> OtherTrans] :
             segments = [k \in 1..n |->
                 IF k = n
                 THEN [SegFromRecord(Record(k, text)) EXCEPT !.translation = t]
                 ELSE [SegFromRecord(Record(k, OneWord)) EXCEPT !.translation = others[k]]]
    /\ InitCall

NextSplit ==
    \E text_threshold \in 0..MaxThreshold, time_threshold \in TimeThresholds,
       tgt_lang \in {"EN", "ZH"} :
          CheckLenAndSplit(text_threshold, time_threshold, tgt_lang)

SpecSplit == InitSplit /\ [][NextSplit]_vars

\* the collection can be written and read
Readable ==
    /\ pc = "idle"
    /\ op \in {"init", "form_whole_sentence", "check_len_and_split"}
    /\ raised = "None"

\* parse_from_srt_file(srt_str=self.reform_src_str())
RoundTrip ==
    /\ Readable
    /\ LET r == parse_from_srt_file(reform_src_str(segments))
       IN  raised' = r.raised /\ out' = r.segments
    /\ pre' = segments
    /\ op' = "round_trip"
    /\ args' = <<>>
    /\ UNCHANGED <<segments, callVars, sums, dictVars, taskVars>>

\* parse_from_srt_file on a subtitle text of the collection, source-only or
\* bilingual, that has lost its last d lines
ParseTruncated(bilingual, d) ==
    /\ Readable
    /\ LET whole == IF bilingual THEN form_bilingual_str(segments)
                    ELSE reform_src_str(segments)
           srt_str == DropLast(whole, d)
           r == parse_from_srt_file(srt_str)
       IN  /\ d <= Len(whole)
           /\ raised' = r.raised /\ out' = r.segments
           /\ args' = splitlines(srt_str)
    /\ pre' = segments
    /\ op' = "parse"
    /\ UNCHANGED <<segments, callVars, sums, dictVars, taskVars>>

\* translations of a collection that is written and read
SrtTrans == {<<>>, <<"a", "a">>, <<FullComma, FullComma, "a">>}

\* a collection built from raw records whose segments hold translations
InitSrt ==
    /\ \E n \in 1..MaxCallSegs :
          \E texts \in [1..n -> {ShortEnd, LongEnd, CommaText}],
             trans \in [1..n -> SrtTrans] :
             segments = [k \in 1..n |->
                            [NewScript(texts)[k] EXCEPT !.translation = trans[k]]]
    /\ InitCall

NextSrt ==
    \/ FormWholeSentence
    \/ NextSplit
    \/ RoundTrip
    \/ \E bilingual \in BOOLEAN, d \in 0..MaxDrop : ParseTruncated(bilingual, d)

SpecSrt == InitSrt /\ [][NextSrt]_vars

\* n sentences separated by double newlines, the last one followed by a
\* double newline when terminated
RECURSIVE JoinSentences(_, _)
JoinSentences(sentences, terminated) ==
    IF sentences = <<>> THEN <<>>
    ELSE Head(sentences)
         \o (IF Len(sentences) > 1 \/ terminated THEN <<NL, NL>> ELSE <<>>)
         \o JoinSentences(Tail(sentences), terminated)

\* the sentences of a script: words without white space
Sentences == StringsUpTo({"a"}, MaxSentence) \ {<<>>}

\* split_script(script_in, chunk_size) on a script of the given sentences
SplitScript(sentences, terminated, chunk_size) ==
    /\ pc = "idle"
    /\ op = "init"
    /\ LET script_in == JoinSentences(sentences, terminated)
           r == split_script(script_in, chunk_size)
       IN  /\ raised' = r.raised
           /\ out' = <<r.script_arr, r.range_arr>>
           /\ args' = [script_in |-> script_in, chunk_size |-> chunk_size,
                       sentences |-> Len(sentences), terminated |-> terminated]
    /\ op' = "split_script"
    /\ UNCHANGED <<segments, pre, callVars, sums, dictVars, taskVars>>

\* no collection is involved in split_script
InitChunk == segments = <<>> /\ InitCall

NextChunk ==
    \E n \in 1..MaxSentences :
       \E sentences \in [1..n -> Sentences], terminated \in BOOLEAN,
          chunk_size \in 0..MaxChunk :
             SplitScript(sentences, terminated, chunk_size)

SpecChunk == InitChunk /\ [][NextChunk]_vars

----------------------------------------------------------------------------
(* The task pipeline: Task.run_pipeline and its five stages *)

\* the members of TaskStatus, in the order of their declaration
TaskStatus == <<"CREATED", "INITIALIZING_ASR", "PRE_PROCESSING", "TRANSLATING",
                "POST_PROCESSING", "OUTPUT_MODULE">>

\* task_cfg["target_lang"]
target_lang == "EN"

\* the default thresholds of check_len_and_split: 30 characters, 1.0 second
text_threshold_default == 30
time_threshold_default == 1000

\* the calls a stage makes when its setting is on
CallIf(setting, name) == IF setting THEN <<name>> ELSE <<>>

\* the part of the state a stage of the task leaves alone
taskFrame == <<pre, op, callVars, sums, ioVars, dictVars, seen, task_cfg>>

\* Task.get_srt_class; transcript is the kind of value get_transcript
\* returns.  Both constructor calls of lines 154 and 156 lack the arguments
\* task_logger and client that SrtScript requires.
GetSrtClass(transcript) ==
    /\ stage = "get_srt_class"
    /\ status' = "INITIALIZING_ASR"
    /\ calls' = Append(calls, "get_srt_class")
    /\ IF SRT_Script # "None" \/ transcript = "None"
       THEN raised' = "None" /\ stage' = "preprocess"
       ELSE raised' = "TypeError" /\ stage' = "done"
    /\ UNCHANGED <<segments, SRT_Script, files, taskFrame>>

\* Task.preprocess; accepted tells whether enchant knows the words of the
\* source text
Preprocess(accepted) ==
    /\ stage = "preprocess"
    /\ status' = "PRE_PROCESSING"
    /\ IF SRT_Script = "None"
       THEN /\ raised' = "AttributeError"
            /\ stage' = "done"
            /\ calls' = Append(calls, "preprocess")
            /\ UNCHANGED <<segments, files>>
       ELSE LET formed == IF task_cfg.sentence_form
                          THEN form_whole_sentence(segments) ELSE segments
                words == RealWords(formed)
                known == IF accepted THEN {words[k] : k \in 1..Len(words)} ELSE {}
                checked == IF task_cfg.spell_check
                           THEN spell_check_term(formed, known)
                           ELSE [raised |-> "None", segments |-> formed]
            IN  /\ segments' = checked.segments
                /\ raised' = checked.raised
                /\ IF checked.raised # "None"
                   THEN /\ stage' = "done"
                        /\ calls' = calls \o <<"preprocess">>
                              \o CallIf(task_cfg.sentence_form, "form_whole_sentence")
                              \o <<"spell_check_term">>
                        /\ UNCHANGED files
                   ELSE /\ stage' = "translation"
                        /\ calls' = calls \o <<"preprocess">>
                              \o CallIf(task_cfg.sentence_form, "form_whole_sentence")
                              \o CallIf(task_cfg.spell_check, "spell_check_term")
                              \o CallIf(task_cfg.term_correct, "correct_with_force_term")
                              \o <<"write_srt_file_src">>
                              \o CallIf(task_cfg.subtitle = "ass", "srt2ass")
                        /\ files' = Append(files, <<"processed", reform_src_str(formed)>>)
    /\ UNCHANGED <<SRT_Script, taskFrame>>

\* Task.translation: get_translation fills the translation of every segment
Translation(t) ==
    /\ stage = "translation"
    /\ calls' = calls \o <<"translation", "get_translation">>
    /\ segments' = [k \in 1..Len(segments) |-> [segments[k] EXCEPT !.translation = t]]
    /\ stage' = "postprocess"
    /\ UNCHANGED <<status, raised, SRT_Script, files, taskFrame>>

\* Task.postprocess
Postprocess ==
    /\ stage = "postprocess"
    /\ status' = "POST_PROCESSING"
    /\ LET split == IF task_cfg.check_len_and_split
                    THEN check_len_and_split(segments, text_threshold_default,
                                             time_threshold_default, target_lang)
                    ELSE [raised |-> "None", segments |-> segments]
       IN  /\ raised' = split.raised
           /\ IF split.raised # "None"
              THEN /\ segments' = split.segments
                   /\ stage' = "done"
                   /\ calls' = calls \o <<"postprocess", "check_len_and_split">>
              ELSE /\ segments' = IF task_cfg.remove_trans_punctuation
                                  THEN remove_trans_punctuation(split.segments, target_lang)
                                  ELSE split.segments
                   /\ stage' = "output_render"
                   /\ calls' = calls \o <<"postprocess">>
                         \o CallIf(task_cfg.check_len_and_split, "check_len_and_split")
                         \o CallIf(task_cfg.remove_trans_punctuation,
                                   "remove_trans_punctuation")
    /\ UNCHANGED <<SRT_Script, files, taskFrame>>

\* Task.output_render of a task without video
OutputRender ==
    /\ stage = "output_render"
    /\ status' = "OUTPUT_MODULE"
    /\ calls' = calls \o <<"output_render", "write_srt_file_translate">>
          \o CallIf(task_cfg.bilingual, "write_srt_file_bilingual")
          \o CallIf(task_cfg.subtitle = "ass", "srt2ass")
    /\ files' = files \o <<<<"translated", reform_trans_str(segments)>>>>
          \o (IF task_cfg.bilingual
              THEN <<<<"bilingual", form_bilingual_str(segments)>>>> ELSE <<>>)
    /\ stage' = "done"
    /\ UNCHANGED <<segments, raised, SRT_Script, taskFrame>>

\* another thread reads Task.status
ReadStatus ==
    /\ stage # "none"
    /\ Len(seen) < MaxReads
    /\ seen' = Append(seen, status)
    /\ UNCHANGED <<segments, pre, op, callVars, raised, sums, ioVars, dictVars,
                   status, stage, calls, SRT_Script, task_cfg, files>>

\* the task_cfg of a task
TaskCfgs ==
    [sentence_form : BOOLEAN, spell_check : BOOLEAN, term_correct : BOOLEAN,
     check_len_and_split : BOOLEAN, remove_trans_punctuation : BOOLEAN,
     bilingual : BOOLEAN, subtitle : {"srt", "ass"}]

\* the translations get_translation leaves in a segment: a short one, and
\* one of 32 characters with a comma in its middle
LongTranslation == Rep("a", 15) \o <<",", SP>> \o Rep("b", 15)
TaskTranslations == {<<"H", "i", ".">>, LongTranslation}

\* Task.__init__, run() about to call run_pipeline: an audio or video task,
\* whose SRT_Script is None, or a task whose SRT_Script holds a collection
\* before the run, the case lines 140-142 of get_srt_class provide for
InitTask ==
    /\ status = "CREATED"
    /\ stage = "get_srt_class"
    /\ calls = <<>>
    /\ seen = <<>>
    /\ files = <<>>
    /\ task_cfg \in TaskCfgs
    /\ \/ SRT_Script = "None" /\ segments = <<>>
       \/ SRT_Script = "SrtScript" /\ segments = NewScript(<<LongOpen, LongEnd>>)
    /\ InitCollection
    /\ domain = "General"
    /\ dict = Unset

\* Task.run_pipeline, one stage at a time, beside a thread that reads the
\* status
NextTask ==
    \/ \E transcript \in {"None", "str", "list"} : GetSrtClass(transcript)
    \/ \E accepted \in BOOLEAN : Preprocess(accepted)
    \/ \E t \in TaskTranslations : Translation(t)
    \/ Postprocess
    \/ OutputRender
    \/ ReadStatus

SpecTask == InitTask /\ [][NextTask]_vars

----------------------------------------------------------------------------
(* Properties of set_translation, checked under Spec *)

CallDone == op = "set_translation" /\ pc = "done"

\* whether the call went through the retry loop
Reconciled == first_count < Required(id_range)

\* the line list the assignment loop started from
FinalLines ==
    IF Reconciled THEN Split(translate, <<NL>>) ELSE Split(translate, <<NL, NL>>)

\* the positions of the range, and the segment of the range at offset i
RangeSize == Required(id_range)
InRange(i) == segments[id_range[1] + i - 1]

\* a line with its first character dropped when it is a space or a newline
TrimOne(l) == IF l # <<>> /\ Head(l) \in {SP, NL} THEN Tail(l) ELSE l

BeginsWithNote(l) == l # <<>> /\ Head(l) = NoteTok

Rows == log_link \o log_name

SameTextsAndTimes(a, b) ==
    /\ a.source_text = b.source_text
    /\ a.start = b.start /\ a.end = b.end
    /\ a.duration = b.duration

\* C1: for any range inside the collection and any translator output,
\* set_translation returns without raising, the collection keeps its
\* segments in the same order, and every segment of the range holds a
\* translation value.
C1_ReturnsNormally ==
    CallDone =>
        /\ raised = "None"
        /\ Len(segments) = Len(pre)
        /\ \A k \in 1..Len(pre) : SameTextsAndTimes(segments[k], pre[k])
        /\ \A i \in 1..RangeSize : InRange(i).translation \in Seq(Alphabet)

\* C2: during one set_translation call at most 5 corrective requests are
\* sent to the translator, whatever it replies and however its calls fail.
C2_AtMostFiveRequests == requests <= RetryLimit

\* C3: when every corrective call fails, retrying stops after the fixed
\* bound: once 5 calls have failed and none has succeeded, the call is no
\* longer waiting to send another request.
C3_RetryStopsAtBound ==
    (op = "set_translation" /\ count = 1 /\ requests >= RetryLimit) => pc # "request"

\* C4: when the first split already has at least the required number of
\* lines, no corrective request is sent, no audit row is written, and the
\* i-th segment of the range receives the i-th line with its leading spaces
\* and newlines trimmed; the lines beyond the required count are ignored.
C4_EnoughLinesAssignedPositionally ==
    (CallDone /\ ~Reconciled) =>
        /\ requests = 0
        /\ Rows = <<>>
        /\ raised = "None"
        /\ \A i \in 1..RangeSize : InRange(i).translation = LStrip(FinalLines[i])

\* C5: a line beginning with "Note:" is discarded without consuming a
\* segment slot, the following lines move up in order, and a line that
\* only contains "Note:" further on is assigned like any other line.
C5_NoteLinesDiscarded ==
    LET kept == SelectSeq(FinalLines, LAMBDA l : ~BeginsWithNote(l))
    IN  (/\ CallDone
         /\ \E j \in 1..Len(FinalLines) : Contains(FinalLines[j], <<NoteTok>>)
         /\ \A m \in 1..Len(FinalLines) : FinalLines[m] # <<>>) =>
            /\ raised = "None"
            /\ \A i \in 1..RangeSize :
                  i <= Len(kept) => InRange(i).translation = TrimOne(kept[i])

\* C6: when the final line list has k lines and k is smaller than the
\* number of segments of the range, the call assigns the k lines to the
\* first k segments, leaves the other translations of the range empty, and
\* changes nothing else: no segment outside the range, no source text, no
\* time.
C6_ShortListFillsPrefix ==
    (/\ CallDone
     /\ Len(FinalLines) < RangeSize
     /\ \A j \in 1..Len(FinalLines) : ~Contains(FinalLines[j], <<NoteTok>>)) =>
        /\ raised = "None"
        /\ \A i \in 1..RangeSize :
              InRange(i).translation =
                 IF i <= Len(FinalLines) THEN TrimOne(FinalLines[i]) ELSE <<>>
        /\ Len(segments) = Len(pre)
        /\ \A k \in 1..Len(pre) :
              /\ SameTextsAndTimes(segments[k], pre[k])
              /\ (k < id_range[1] \/ k > id_range[2]) => segments[k] = pre[k]

\* C7: the call appends exactly one audit row when the first split has
\* fewer lines than required and none otherwise; the row's iteration count
\* lies between 1 and 5, its solved flag is false exactly when the final
\* line list is still too short, and the row goes to the link-keyed log
\* when a video link is given and to the name-keyed log otherwise.
C7_OneAuditRowPerReconciliation ==
    /\ ~CallDone => Rows = <<>>
    /\ (CallDone /\ ~Reconciled) => Rows = <<>>
    /\ (CallDone /\ Reconciled) =>
          /\ Len(Rows) = 1
          /\ Rows[1].iterations \in 1..RetryLimit
          /\ Rows[1].iterations = count
          /\ Rows[1].solved = ~(Len(FinalLines) < RangeSize)
          /\ Rows[1].range = id_range
          /\ Rows[1].file_length = Len(pre)
          /\ IF video_link # "None"
             THEN log_name = <<>> /\ Rows[1].source = video_link
             ELSE log_link = <<>> /\ Rows[1].source = VideoName

\* a call that was reconciled at its second request and logged under the link
C7_Witness ==
    /\ CallDone /\ Reconciled
    /\ Len(log_link) = 1
    /\ log_link[1].solved
    /\ log_link[1].iterations = 2

----------------------------------------------------------------------------
(* Properties of form_whole_sentence and of merging, under SpecSentence *)

RECURSIVE JoinTexts(_)
JoinTexts(segs) ==
    IF segs = <<>> THEN <<>>
    ELSE IF Len(segs) = 1 THEN segs[1].source_text
    ELSE segs[1].source_text \o <<SP>> \o JoinTexts(Tail(segs))

\* C8: form_whole_sentence keeps every original segment, in order: the
\* joined source texts are those of the input, the first start and the
\* last end are unchanged, and a trailing run without a sentence terminator
\* becomes the last merged segment.
C8_NothingDropped ==
    op = "form_whole_sentence" =>
        /\ JoinTexts(segments) = JoinTexts(pre)
        /\ segments # <<>>
        /\ segments[1].start = pre[1].start
        /\ segments[Len(segments)].end = pre[Len(pre)].end

EndsWith(s, suffix) ==
    Len(s) >= Len(suffix) /\ SubSeq(s, Len(s) - Len(suffix) + 1, Len(s)) = suffix

\* the closing condition as the specification words it
ClosesRun(seg) ==
    /\ seg.source_text[Len(seg.source_text)] \in sentence_end(src_lang)
    /\ Len(seg.source_text) > 10
    /\ ~EndsWith(seg.source_text, <<"v", "s", ".">>)

\* C9: a run is closed at a segment exactly when its text ends with a
\* sentence terminator, is longer than 10 characters and does not end in
\* "vs."; each closed run becomes one merged segment, so the merged
\* segments end exactly where the closing segments end, in order.
C9_RunsCloseAtTerminators ==
    op = "form_whole_sentence" =>
        LET closing == SelectSeq([i \in 1..Len(pre) |-> i], LAMBDA i : ClosesRun(pre[i]))
        IN  /\ Len(segments) >= Len(closing)
            /\ Len(segments) <= Len(closing) + 1
            /\ \A k \in 1..Len(closing) :
                  /\ segments[k].end = pre[closing[k]].end
                  /\ segments[k].start =
                        pre[IF k = 1 THEN 1 ELSE closing[k - 1] + 1].start

SameSegment(a, b) ==
    /\ SameTextsAndTimes(a, b)
    /\ a.translation = b.translation

\* C10: merging is associative on contiguous segments a, b, c: (a + b) + c,
\* a + (b + c) and merge_segs over their positions agree on source text,
\* translation, start, end and duration; the texts are joined by single
\* spaces, the start is that of a and the end that of c.
C10_MergeAssociative ==
    op = "merge" =>
        LET a == pre[sums.idx]
            b == pre[sums.idx + 1]
            c == pre[sums.idx + 2]
        IN  /\ SameSegment(sums.left, sums.right)
            /\ SameSegment(sums.left, sums.list)
            /\ sums.left.source_text =
                  a.source_text \o <<SP>> \o b.source_text \o <<SP>> \o c.source_text
            /\ sums.left.translation =
                  a.translation \o <<SP>> \o b.translation \o <<SP>> \o c.translation
            /\ sums.left.start = a.start
            /\ sums.left.end = c.end
            /\ sums.left.duration = <<a.start_time_str, c.end_time_str>>

\* three segments with different texts and translations have been merged
C10_Witness ==
    /\ op = "merge"
    /\ pre[1].source_text # pre[2].source_text
    /\ pre[1].translation # pre[3].translation
    /\ sums.list.translation = <<"x", SP, SP>>

----------------------------------------------------------------------------
(* Properties of the value-form merges, checked under SpecMerge *)

\* C11: a + b and merge_segs(idx_list) return a new segment and leave both
\* operands and every stored segment unchanged in all their fields, for
\* index lists of any length, of length 1 and with a repeated index.
C11_MergeLeavesOperandsUnchanged ==
    op \in {"add", "merge_segs"} =>
        /\ segments = pre
        /\ out.id > Len(pre)
        /\ out.seg = IF op = "add" THEN Add(pre[args[1]], pre[args[2]])
                     ELSE merge_segs(pre, args)
        /\ (op = "merge_segs" /\ Len(args) = 1) => out.seg = pre[args[1]]

\* a segment has been added to itself
C11_Witness ==
    /\ op = "add"
    /\ args[1] = args[2]
    /\ out.seg.source_text = pre[args[1]].source_text \o <<SP>> \o pre[args[1]].source_text
    /\ segments = pre

----------------------------------------------------------------------------
(* Properties of check_len_and_split, checked under SpecSplit *)

SplitDone == op = "check_len_and_split"

\* C12: check_len_and_split terminates for every collection and every pair
\* of thresholds, translations that begin with a comma included, and
\* afterwards no segment has both a translation longer than text_threshold
\* and a duration above time_threshold.
C12_SplitTerminates ==
    SplitDone =>
        /\ raised # "RecursionError"
        /\ raised = "None" =>
              \A k \in 1..Len(segments) :
                 ~Exceeds(segments[k], args.text_threshold, args.time_threshold)

RECURSIVE JoinField(_, _)
JoinField(segs, field) ==
    IF segs = <<>> THEN <<>> ELSE Head(segs)[field] \o JoinField(Tail(segs), field)

\* the pieces that replaced the k-th segment of the collection
Leaves(k) == out[k]

Replaced(k) == Exceeds(pre[k], args.text_threshold, args.time_threshold)

\* the k-th segment with its leading comma glyphs stripped
Stripped(k) == StripComma(pre[k], args.tgt_lang)

\* the leaves of the k-th segment are in order and tile its time span, and
\* the first cut lies where the translation was cut, in proportion
TilesInTime(k) ==
    LET g == Leaves(k)
        t == Stripped(k).translation
        idx == TransSplitIdx(t, comma(args.tgt_lang))
        cut == IF idx = 0 THEN pre[k].start
               ELSE pre[k].start + ((pre[k].end - pre[k].start) * idx) \div (Len(t) - 1)
    IN  /\ Len(g) >= 2
        /\ g[1].start = pre[k].start
        /\ g[Len(g)].end = pre[k].end
        /\ \A i \in 1..(Len(g) - 1) : g[i].end = g[i + 1].start
        /\ \A i \in 1..Len(g) :
              /\ pre[k].start <= g[i].start
              /\ g[i].start <= g[i].end
              /\ g[i].end <= pre[k].end
        /\ \E i \in 1..(Len(g) - 1) :
              /\ g[i].end = cut
              /\ Len(JoinField(SubSeq(g, 1, i), "translation")) <= idx

Without(s, chars) == SelectSeq(s, LAMBDA c : c \notin chars)

C14_ShortTranslationsAreBaseCases ==
    SplitDone =>
        /\ raised # "ZeroDivisionError"
        /\ raised = "None" =>
              \A k \in 1..Len(pre) :
                 Len(pre[k].translation) <= 1 => Leaves(k) = <<pre[k]>>

----------------------------------------------------------------------------
(* Properties of the segment constructors, checked under SpecConstruct *)

Constructed == op = "construct"

\* C15: building a segment from a raw record whose end time is smaller
\* than its start time fails with an invalid-input error and produces no
\* segment.
C15_EndBeforeStartRejected ==
    (Constructed /\ args.end < args.start) => (raised # "None" /\ out = <<>>)

\* a timestamp reads HH:MM:SS,mmm
WellShaped(time_str) ==
    /\ time_str[1] \in 0..9
    /\ time_str[2] \in 0..59
    /\ time_str[3] \in 0..59
    /\ time_str[4] \in 0..999

\* C16: for every raw record with 0 <= start <= end in whole milliseconds
\* the construction succeeds, its duration string reads
\* HH:MM:SS,mmm --> HH:MM:SS,mmm and its end timestamp is strictly later
\* than its start timestamp, also when start and end lie in the same second
\* with equal millisecond parts of 500 or more.
C16_DurationStringWellFormed ==
    (Constructed /\ 0 <= args.start /\ args.start <= args.end) =>
        /\ raised = "None"
        /\ WellShaped(out.duration[1]) /\ WellShaped(out.duration[2])
        /\ ParseTime(out.duration[1]) < ParseTime(out.duration[2])

Near(a, b) == a - b <= 1 /\ b - a <= 1

\* C17: for every valid raw record with end > start, the segment built by
\* the block constructor from the duration string and the text of the
\* segment built from the record has a start and an end within 1 ms of the
\* record's.
C17_DurationRoundTrip ==
    (op = "construct_again" /\ 0 <= args.start /\ args.start < args.end) =>
        /\ raised = "None"
        /\ Near(out.start, args.start)
        /\ Near(out.end, args.end)

----------------------------------------------------------------------------
(* Properties of writing and reading subtitle text, checked under SpecSrt *)

\* C18: parse_from_srt_file(reform_src_str(collection)) yields a collection
\* with the same number of segments, the same source texts in the same
\* order and the same start and end times, with empty translations,
\* whatever merges and splits the collection went through.
C18_SourceRoundTrip ==
    op = "round_trip" =>
        /\ raised = "None"
        /\ Len(out) = Len(pre)
        /\ \A k \in 1..Len(pre) :
              /\ out[k].source_text = pre[k].source_text
              /\ out[k].start = pre[k].start
              /\ out[k].end = pre[k].end
              /\ out[k].translation = <<>>

\* the block size parse_from_srt_file detects on the lines it was given
DetectedBlockSize ==
    IF Len(args) >= 4 /\ ~IsBlank(args[3]) /\ ~IsBlank(args[4]) THEN 5 ELSE 4

\* C19: parse_from_srt_file fails and returns no collection whenever the
\* number of lines is not a multiple of the detected block size (4 lines
\* for source-only text, 5 for bilingual text); a truncated last block is
\* never turned into a segment.
C19_TruncatedTextRejected ==
    (op = "parse" /\ Len(args) % DetectedBlockSize # 0) =>
        (raised # "None" /\ out = <<>>)

----------------------------------------------------------------------------
(* Properties of the dictionary passes, checked under SpecDict *)

\* C20: when no domain dictionary is loaded (domain "General", or a domain
\* downgraded at construction because its files are missing), both
\* correct_with_force_term and spell_check_term return normally and leave
\* the source text, the translation and the times of every segment
\* unchanged.
C20_NoDictionaryNoChange ==
    (op \in {"correct_with_force_term", "spell_check_term"} /\ dict = Unset) =>
        /\ raised = "None"
        /\ segments = pre

----------------------------------------------------------------------------
(* Properties of split_script, checked under SpecChunk *)

\* C22: for every script of N sentences separated by double newlines and
\* every chunk_size, split_script returns equally many chunks and ranges,
\* every chunk is non-empty, and the ranges partition 1..N in order: the
\* first range starts at 1, every range has start <= end, each next range
\* starts at the previous end + 1, and the last range ends at N, also when
\* a single sentence is longer than chunk_size.
C22_RangesPartitionSentences ==
    op = "split_script" =>
        LET script_arr == out[1]
            range_arr == out[2]
            n == Len(range_arr)
        IN  /\ raised = "None"
            /\ Len(script_arr) = n
            /\ n >= 1
            /\ \A k \in 1..Len(script_arr) : script_arr[k] # <<>>
            /\ range_arr[1][1] = 1
            /\ \A k \in 1..n : range_arr[k][1] <= range_arr[k][2]
            /\ \A k \in 1..(n - 1) : range_arr[k + 1][1] = range_arr[k][2] + 1
            /\ range_arr[n][2] = args.sentences

----------------------------------------------------------------------------
(* Properties of the task pipeline, checked under SpecTask *)

\* the five stages of run_pipeline
Stages == <<"get_srt_class", "preprocess", "translation", "postprocess",
            "output_render">>

\* the stages the task has invoked, in the order of their invocation
StagesInvoked == SelectSeq(calls, LAMBDA c : \E k \in 1..Len(Stages) : Stages[k] = c)

\* every call of a precedes every call of b
Precedes(a, b) ==
    \A i, j \in 1..Len(calls) : (calls[i] = a /\ calls[j] = b) => i < j

\* the position of a status in TaskStatus
Rank(s) == CHOOSE k \in 1..Len(TaskStatus) : TaskStatus[k] = s

====
